---- MODULE Spec2Model ----
(***************************************************************************)
(* Model of package abi (src/abi/sector.go): the SectorSize abbreviation   *)
(* and the proof type registry (SealProofInfos, PoStSealProofTypes and     *)
(* the five lookup methods).                                               *)
(*                                                                         *)
(* A uint64 is held as NumLimbs base-1024 limbs, least significant first,  *)
(* because the sector sizes of the registry (32 << 30, 64 << 30) and the   *)
(* range of SectorSize (up to 2^64-1) exceed the integers of the model     *)
(* checker.  Division and comparison are long division and limb-wise       *)
(* comparison on that representation.                                      *)
(***************************************************************************)
EXTENDS Integers, Sequences, FiniteSets, TLC

VARIABLES
    sealProofInfos,      \* contents of the package variable SealProofInfos
    poStSealProofTypes,  \* contents of the package variable PoStSealProofTypes
    calls,               \* per goroutine: the lookup it last completed
    pc,                  \* ShortString: position of the call
    recv,                \* ShortString: the receiver the call was made on
    s,                   \* ShortString: the local s (the receiver copy)
    unit,                \* ShortString: the local unit
    out                  \* ShortString: the string returned

vars == <<sealProofInfos, poStSealProofTypes, calls, pc, recv, s, unit, out>>
regVars == <<sealProofInfos, poStSealProofTypes, calls>>
ssVars == <<pc, recv, s, unit, out>>

----------------------------------------------------------------------------
(* uint64 arithmetic *)

LimbBase == 1024
NumLimbs == 7
\* 2^64 = 16 * 1024^6: the most significant limb of a uint64 is 0..15
TopLimbMax == 15

IsUint64(x) ==
    /\ Len(x) = NumLimbs
    /\ \A i \in 1..(NumLimbs - 1) : x[i] \in 0..(LimbBase - 1)
    /\ x[NumLimbs] \in 0..TopLimbMax

RECURSIVE Limbs(_, _)
Limbs(n, k) == IF k = 0 THEN <<>> ELSE <<n % LimbBase>> \o Limbs(n \div LimbBase, k - 1)

\* the uint64 of a small non-negative integer literal
Uint64(n) == Limbs(n, NumLimbs)

RECURSIVE Zeros(_)
Zeros(k) == IF k = 0 THEN <<>> ELSE <<0>> \o Zeros(k - 1)

\* c << bits for the literals of the registry (bits a multiple of 10)
Shl(c, bits) == Zeros(bits \div 10) \o Limbs(c, NumLimbs - (bits \div 10))

\* x < y on uint64, from the most significant limb down
RECURSIVE LessFrom(_, _, _)
LessFrom(x, y, i) ==
    IF i = 0 THEN FALSE
    ELSE IF x[i] # y[i] THEN x[i] < y[i]
    ELSE LessFrom(x, y, i - 1)

Less(x, y) == LessFrom(x, y, NumLimbs)
GreaterEq(x, y) == ~Less(x, y)

\* long division of the limbs i..1 of x by the small divisor k, carrying rem
RECURSIVE LongDiv(_, _, _, _)
LongDiv(x, k, i, rem) ==
    IF i = 0 THEN [quot |-> <<>>, rem |-> rem]
    ELSE LET cur == rem * LimbBase + x[i]
             rest == LongDiv(x, k, i - 1, cur % k)
         IN  [quot |-> Append(rest.quot, cur \div k), rem |-> rest.rem]

Div(x, k) == LongDiv(x, k, NumLimbs, 0).quot
Mod(x, k) == LongDiv(x, k, NumLimbs, 0).rem

DecimalDigit == <<"0", "1", "2", "3", "4", "5", "6", "7", "8", "9">>

\* strconv.FormatUint(x, 10), which is also fmt's %d of an unsigned value
RECURSIVE FormatUint(_)
FormatUint(x) ==
    IF Less(x, Uint64(10)) THEN DecimalDigit[x[1] + 1]
    ELSE FormatUint(Div(x, 10)) \o DecimalDigit[Mod(x, 10) + 1]

\* the decimal digits of a non-negative integer that fits one machine word
RECURSIVE FormatDecimal(_)
FormatDecimal(n) ==
    IF n < 10 THEN DecimalDigit[n + 1]
    ELSE FormatDecimal(n \div 10) \o DecimalDigit[(n % 10) + 1]

\* fmt's %v of an int64 identifier
FormatInt(n) ==
    IF n < 0 THEN "-" \o FormatDecimal(0 - n) ELSE FormatDecimal(n)

----------------------------------------------------------------------------
(* SectorSize.ShortString *)

\* a unit list that stops at PiB
biUnits_NoEiB == <<"B", "KiB", "MiB", "GiB", "TiB", "PiB">>

biUnits == <<"B", "KiB", "MiB", "GiB", "TiB", "PiB", "EiB">>

\* the loop condition with s > 1024 in place of s >= 1024
LoopCond_StrictGreater(x, u) == Less(Uint64(1024), x) /\ u < Len(biUnits) - 1

\* s >= 1024 && unit < len(biUnits)-1
LoopCond(x, u) == GreaterEq(x, Uint64(1024)) /\ u < Len(biUnits) - 1

\* s /= 1024
LoopDivide(x) == Div(x, 1024)

\* fmt.Sprintf("%d%s", s, biUnits[unit]); an index outside biUnits panics
Sprintf(x, u) ==
    IF u + 1 \in DOMAIN biUnits THEN FormatUint(x) \o biUnits[u + 1]
    ELSE "panic: index out of range"

\* the receivers the model calls ShortString on: every uint64 whose limbs
\* are drawn from these values (0, 1023, 1024, 1536, 2^64-1 are among them)
LowLimbSamples == {0, 1, 512, 1023}
MidLimbSamples == {0, 1, 1023}
TopLimbSamples == {0, 1, TopLimbMax}

SizeSamples ==
    { <<a, b, c, d, e, f, g>> :
        a \in LowLimbSamples,
        b \in MidLimbSamples, c \in MidLimbSamples, d \in MidLimbSamples,
        e \in MidLimbSamples, f \in MidLimbSamples,
        g \in TopLimbSamples }

ShortStringInit ==
    /\ pc = "idle"
    /\ recv = Uint64(0)
    /\ s = Uint64(0)
    /\ unit = 0
    /\ out = ""

\* entry: s is the receiver, unit := 0
ShortStringCall(x) ==
    /\ pc = "idle"
    /\ pc' = "loop"
    /\ recv' = x
    /\ s' = x
    /\ unit' = 0
    /\ out' = ""
    /\ UNCHANGED regVars

\* one iteration of the for loop
ShortStringLoop ==
    /\ pc = "loop"
    /\ LoopCond(s, unit)
    /\ s' = LoopDivide(s)
    /\ unit' = unit + 1
    /\ UNCHANGED <<pc, recv, out>>
    /\ UNCHANGED regVars

\* the loop condition is false: format and return
ShortStringReturn ==
    /\ pc = "loop"
    /\ ~LoopCond(s, unit)
    /\ out' = Sprintf(s, unit)
    /\ pc' = "done"
    /\ UNCHANGED <<recv, s, unit>>
    /\ UNCHANGED regVars

----------------------------------------------------------------------------
(* the proof type registry *)

RegisteredSealProof_StackedDrg2KiBV2 == 0
RegisteredSealProof_StackedDrg8MiBV2 == 1
RegisteredSealProof_StackedDrg512MiBV2 == 2
RegisteredSealProof_StackedDrg32GiBV2 == 3
RegisteredSealProof_StackedDrg64GiBV2 == 4

RegisteredPoStProof_StackedDrgWinning2KiBV2 == 0
RegisteredPoStProof_StackedDrgWinning8MiBV2 == 1
RegisteredPoStProof_StackedDrgWinning512MiBV2 == 2
RegisteredPoStProof_StackedDrgWinning32GiBV2 == 3
RegisteredPoStProof_StackedDrgWinning64GiBV2 == 4
RegisteredPoStProof_StackedDrgWindow2KiBV2 == 5
RegisteredPoStProof_StackedDrgWindow8MiBV2 == 6
RegisteredPoStProof_StackedDrgWindow512MiBV2 == 7
RegisteredPoStProof_StackedDrgWindow32GiBV2 == 8
RegisteredPoStProof_StackedDrgWindow64GiBV2 == 9

SealProofInfo(size, winning, window) ==
    [SectorSize |-> size, WinningPoStProof |-> winning, WindowPoStProof |-> window]

\* the table with the 8 MiB entry naming the 2 KiB window PoSt identifier
SealProofInfos_SharedPoSt ==
    (RegisteredSealProof_StackedDrg2KiBV2 :>
        SealProofInfo(Shl(2, 10),
                      RegisteredPoStProof_StackedDrgWinning2KiBV2,
                      RegisteredPoStProof_StackedDrgWindow2KiBV2))
    @@ (RegisteredSealProof_StackedDrg8MiBV2 :>
        SealProofInfo(Shl(8, 20),
                      RegisteredPoStProof_StackedDrgWinning8MiBV2,
                      RegisteredPoStProof_StackedDrgWindow2KiBV2))
    @@ (RegisteredSealProof_StackedDrg512MiBV2 :>
        SealProofInfo(Shl(512, 20),
                      RegisteredPoStProof_StackedDrgWinning512MiBV2,
                      RegisteredPoStProof_StackedDrgWindow512MiBV2))
    @@ (RegisteredSealProof_StackedDrg32GiBV2 :>
        SealProofInfo(Shl(32, 30),
                      RegisteredPoStProof_StackedDrgWinning32GiBV2,
                      RegisteredPoStProof_StackedDrgWindow32GiBV2))
    @@ (RegisteredSealProof_StackedDrg64GiBV2 :>
        SealProofInfo(Shl(64, 30),
                      RegisteredPoStProof_StackedDrgWinning64GiBV2,
                      RegisteredPoStProof_StackedDrgWindow64GiBV2))

\* the literal the package variable SealProofInfos is initialised with
SealProofInfos ==
    (RegisteredSealProof_StackedDrg2KiBV2 :>
        SealProofInfo(Shl(2, 10),
                      RegisteredPoStProof_StackedDrgWinning2KiBV2,
                      RegisteredPoStProof_StackedDrgWindow2KiBV2))
    @@ (RegisteredSealProof_StackedDrg8MiBV2 :>
        SealProofInfo(Shl(8, 20),
                      RegisteredPoStProof_StackedDrgWinning8MiBV2,
                      RegisteredPoStProof_StackedDrgWindow8MiBV2))
    @@ (RegisteredSealProof_StackedDrg512MiBV2 :>
        SealProofInfo(Shl(512, 20),
                      RegisteredPoStProof_StackedDrgWinning512MiBV2,
                      RegisteredPoStProof_StackedDrgWindow512MiBV2))
    @@ (RegisteredSealProof_StackedDrg32GiBV2 :>
        SealProofInfo(Shl(32, 30),
                      RegisteredPoStProof_StackedDrgWinning32GiBV2,
                      RegisteredPoStProof_StackedDrgWindow32GiBV2))
    @@ (RegisteredSealProof_StackedDrg64GiBV2 :>
        SealProofInfo(Shl(64, 30),
                      RegisteredPoStProof_StackedDrgWinning64GiBV2,
                      RegisteredPoStProof_StackedDrgWindow64GiBV2))

\* the reverse table with the 2 KiB window line naming the 8 MiB seal proof
PoStSealProofTypes_Slip ==
    (RegisteredPoStProof_StackedDrgWinning2KiBV2 :> RegisteredSealProof_StackedDrg2KiBV2)
    @@ (RegisteredPoStProof_StackedDrgWindow2KiBV2 :> RegisteredSealProof_StackedDrg8MiBV2)
    @@ (RegisteredPoStProof_StackedDrgWinning8MiBV2 :> RegisteredSealProof_StackedDrg8MiBV2)
    @@ (RegisteredPoStProof_StackedDrgWindow8MiBV2 :> RegisteredSealProof_StackedDrg8MiBV2)
    @@ (RegisteredPoStProof_StackedDrgWinning512MiBV2 :> RegisteredSealProof_StackedDrg512MiBV2)
    @@ (RegisteredPoStProof_StackedDrgWindow512MiBV2 :> RegisteredSealProof_StackedDrg512MiBV2)
    @@ (RegisteredPoStProof_StackedDrgWinning32GiBV2 :> RegisteredSealProof_StackedDrg32GiBV2)
    @@ (RegisteredPoStProof_StackedDrgWindow32GiBV2 :> RegisteredSealProof_StackedDrg32GiBV2)
    @@ (RegisteredPoStProof_StackedDrgWinning64GiBV2 :> RegisteredSealProof_StackedDrg64GiBV2)
    @@ (RegisteredPoStProof_StackedDrgWindow64GiBV2 :> RegisteredSealProof_StackedDrg64GiBV2)

\* the reverse table with a line for a PoSt identifier no seal proof declares
PoStSealProofTypes_Extra ==
    (RegisteredPoStProof_StackedDrgWinning2KiBV2 :> RegisteredSealProof_StackedDrg2KiBV2)
    @@ (RegisteredPoStProof_StackedDrgWindow2KiBV2 :> RegisteredSealProof_StackedDrg2KiBV2)
    @@ (RegisteredPoStProof_StackedDrgWinning8MiBV2 :> RegisteredSealProof_StackedDrg8MiBV2)
    @@ (RegisteredPoStProof_StackedDrgWindow8MiBV2 :> RegisteredSealProof_StackedDrg8MiBV2)
    @@ (RegisteredPoStProof_StackedDrgWinning512MiBV2 :> RegisteredSealProof_StackedDrg512MiBV2)
    @@ (RegisteredPoStProof_StackedDrgWindow512MiBV2 :> RegisteredSealProof_StackedDrg512MiBV2)
    @@ (RegisteredPoStProof_StackedDrgWinning32GiBV2 :> RegisteredSealProof_StackedDrg32GiBV2)
    @@ (RegisteredPoStProof_StackedDrgWindow32GiBV2 :> RegisteredSealProof_StackedDrg32GiBV2)
    @@ (RegisteredPoStProof_StackedDrgWinning64GiBV2 :> RegisteredSealProof_StackedDrg64GiBV2)
    @@ (RegisteredPoStProof_StackedDrgWindow64GiBV2 :> RegisteredSealProof_StackedDrg64GiBV2)
    @@ ((RegisteredPoStProof_StackedDrgWindow64GiBV2 + 1) :> RegisteredSealProof_StackedDrg64GiBV2)

\* the literal the package variable PoStSealProofTypes is initialised with
PoStSealProofTypes ==
    (RegisteredPoStProof_StackedDrgWinning2KiBV2 :> RegisteredSealProof_StackedDrg2KiBV2)
    @@ (RegisteredPoStProof_StackedDrgWindow2KiBV2 :> RegisteredSealProof_StackedDrg2KiBV2)
    @@ (RegisteredPoStProof_StackedDrgWinning8MiBV2 :> RegisteredSealProof_StackedDrg8MiBV2)
    @@ (RegisteredPoStProof_StackedDrgWindow8MiBV2 :> RegisteredSealProof_StackedDrg8MiBV2)
    @@ (RegisteredPoStProof_StackedDrgWinning512MiBV2 :> RegisteredSealProof_StackedDrg512MiBV2)
    @@ (RegisteredPoStProof_StackedDrgWindow512MiBV2 :> RegisteredSealProof_StackedDrg512MiBV2)
    @@ (RegisteredPoStProof_StackedDrgWinning32GiBV2 :> RegisteredSealProof_StackedDrg32GiBV2)
    @@ (RegisteredPoStProof_StackedDrgWindow32GiBV2 :> RegisteredSealProof_StackedDrg32GiBV2)
    @@ (RegisteredPoStProof_StackedDrgWinning64GiBV2 :> RegisteredSealProof_StackedDrg64GiBV2)
    @@ (RegisteredPoStProof_StackedDrgWindow64GiBV2 :> RegisteredSealProof_StackedDrg64GiBV2)

\* the nil error
Nil == "<nil>"

\* xerrors.Errorf(format + "%v", p)
Errorf(format, p) == format \o FormatInt(p)

\* what a method returns: the value, the error, and the package maps it read
Return(val, err, reads) == [val |-> val, err |-> err, reads |-> reads]

\* func (p RegisteredSealProof) SectorSize() (SectorSize, error)
RegisteredSealProof_SectorSize(p) ==
    IF p \notin DOMAIN sealProofInfos
    THEN Return(Uint64(0), Errorf("unsupported proof type: ", p), <<"SealProofInfos">>)
    ELSE Return(sealProofInfos[p].SectorSize, Nil, <<"SealProofInfos">>)

\* RegisteredWinningPoStProof that returns the window field of the entry
RegisteredSealProof_RegisteredWinningPoStProof_ReturnsWindow(p) ==
    IF p \notin DOMAIN sealProofInfos
    THEN Return(0, Errorf("unsupported proof type: ", p), <<"SealProofInfos">>)
    ELSE Return(sealProofInfos[p].WindowPoStProof, Nil, <<"SealProofInfos">>)

\* func (p RegisteredSealProof) RegisteredWinningPoStProof() (RegisteredPoStProof, error)
RegisteredSealProof_RegisteredWinningPoStProof(p) ==
    IF p \notin DOMAIN sealProofInfos
    THEN Return(0, Errorf("unsupported proof type: ", p), <<"SealProofInfos">>)
    ELSE Return(sealProofInfos[p].WinningPoStProof, Nil, <<"SealProofInfos">>)

\* RegisteredWindowPoStProof without the ok check: a miss yields the zero value
RegisteredSealProof_RegisteredWindowPoStProof_NoOkCheck(p) ==
    IF p \notin DOMAIN sealProofInfos
    THEN Return(0, Nil, <<"SealProofInfos">>)
    ELSE Return(sealProofInfos[p].WindowPoStProof, Nil, <<"SealProofInfos">>)

\* func (p RegisteredSealProof) RegisteredWindowPoStProof() (RegisteredPoStProof, error)
RegisteredSealProof_RegisteredWindowPoStProof(p) ==
    IF p \notin DOMAIN sealProofInfos
    THEN Return(0, Errorf("unsupported proof type: ", p), <<"SealProofInfos">>)
    ELSE Return(sealProofInfos[p].WindowPoStProof, Nil, <<"SealProofInfos">>)

\* func (p RegisteredPoStProof) RegisteredSealProof() (RegisteredSealProof, error)
RegisteredPoStProof_RegisteredSealProof(p) ==
    IF p \notin DOMAIN poStSealProofTypes
    THEN Return(0, Errorf("unsupported PoSt proof type: ", p), <<"PoStSealProofTypes">>)
    ELSE Return(poStSealProofTypes[p], Nil, <<"PoStSealProofTypes">>)

\* SectorSize of a PoSt proof that takes p itself for the seal proof identifier
RegisteredPoStProof_SectorSize_Cast(p) ==
    RegisteredSealProof_SectorSize(p)

\* SectorSize of a PoSt proof that drops the error of RegisteredSealProof()
RegisteredPoStProof_SectorSize_IgnoreErr(p) ==
    LET sp == RegisteredPoStProof_RegisteredSealProof(p)
        r == RegisteredSealProof_SectorSize(sp.val)
    IN  Return(r.val, r.err, sp.reads \o r.reads)

\* func (p RegisteredPoStProof) SectorSize() (SectorSize, error)
RegisteredPoStProof_SectorSize(p) ==
    LET sp == RegisteredPoStProof_RegisteredSealProof(p)
    IN  IF sp.err # Nil
        THEN Return(Uint64(0), sp.err, sp.reads)
        ELSE LET r == RegisteredSealProof_SectorSize(sp.val)
             IN  Return(r.val, r.err, sp.reads \o r.reads)

----------------------------------------------------------------------------
(* callers of the registry *)

\* the goroutines that call the lookup methods concurrently
Goroutines == {"g1", "g2"}

\* the identifier values the callers pass: ProbeBelow negative values, the
\* assigned ones, and the unassigned ones up to ProbeAbove
ProbeBelow == 2
ProbeAbove == 11
ProbeIds == (0 - ProbeBelow)..ProbeAbove

OpSealSectorSize == "RegisteredSealProof.SectorSize"
OpWinning == "RegisteredSealProof.RegisteredWinningPoStProof"
OpWindow == "RegisteredSealProof.RegisteredWindowPoStProof"
OpSealProof == "RegisteredPoStProof.RegisteredSealProof"
OpPoStSectorSize == "RegisteredPoStProof.SectorSize"

NoCall == [op |-> "none", arg |-> 0]

\* the methods whose result is a RegisteredSealProof / a RegisteredPoStProof
ReturnsSealProof == {OpSealProof}
ReturnsPoStProof == {OpWinning, OpWindow}

\* the argument p of a call: any probe value, or (chained) the identifier the
\* goroutine's previous call returned, which must be of the receiver's type
ArgOk(g, p, chained, producers) ==
    chained =>
        /\ calls[g].op \in producers
        /\ calls[g].res.err = Nil
        /\ calls[g].res.val = p

\* the goroutine records the call it completed
Completed(g, op, p, chained, res) ==
    calls' = [calls EXCEPT ![g] =
                [op |-> op, arg |-> p, res |-> res,
                 from |-> IF chained THEN [op |-> calls[g].op, arg |-> calls[g].arg]
                          ELSE NoCall]]

\* a SectorSize call that stores a zero entry for an identifier it misses
CallSealSectorSize_InsertOnMiss(g, p, chained) ==
    /\ ArgOk(g, p, chained, ReturnsSealProof)
    /\ Completed(g, OpSealSectorSize, p, chained, RegisteredSealProof_SectorSize(p))
    /\ sealProofInfos' =
         IF p \in DOMAIN sealProofInfos THEN sealProofInfos
         ELSE sealProofInfos @@ (p :> SealProofInfo(Uint64(0), 0, 0))
    /\ UNCHANGED poStSealProofTypes
    /\ UNCHANGED ssVars

CallSealSectorSize(g, p, chained) ==
    /\ ArgOk(g, p, chained, ReturnsSealProof)
    /\ Completed(g, OpSealSectorSize, p, chained, RegisteredSealProof_SectorSize(p))
    /\ UNCHANGED <<sealProofInfos, poStSealProofTypes>>
    /\ UNCHANGED ssVars

CallRegisteredWinningPoStProof(g, p, chained) ==
    /\ ArgOk(g, p, chained, ReturnsSealProof)
    /\ Completed(g, OpWinning, p, chained, RegisteredSealProof_RegisteredWinningPoStProof(p))
    /\ UNCHANGED <<sealProofInfos, poStSealProofTypes>>
    /\ UNCHANGED ssVars

CallRegisteredWindowPoStProof(g, p, chained) ==
    /\ ArgOk(g, p, chained, ReturnsSealProof)
    /\ Completed(g, OpWindow, p, chained, RegisteredSealProof_RegisteredWindowPoStProof(p))
    /\ UNCHANGED <<sealProofInfos, poStSealProofTypes>>
    /\ UNCHANGED ssVars

CallRegisteredSealProof(g, p, chained) ==
    /\ ArgOk(g, p, chained, ReturnsPoStProof)
    /\ Completed(g, OpSealProof, p, chained, RegisteredPoStProof_RegisteredSealProof(p))
    /\ UNCHANGED <<sealProofInfos, poStSealProofTypes>>
    /\ UNCHANGED ssVars

CallPoStSectorSize(g, p, chained) ==
    /\ ArgOk(g, p, chained, ReturnsPoStProof)
    /\ Completed(g, OpPoStSectorSize, p, chained, RegisteredPoStProof_SectorSize(p))
    /\ UNCHANGED <<sealProofInfos, poStSealProofTypes>>
    /\ UNCHANGED ssVars

----------------------------------------------------------------------------
(* specifications *)

RegistryInit ==
    /\ sealProofInfos = SealProofInfos
    /\ poStSealProofTypes = PoStSealProofTypes
    /\ calls = [g \in Goroutines |->
                  [op |-> "none", arg |-> 0, res |-> Return(0, Nil, <<>>), from |-> NoCall]]

Init == RegistryInit /\ ShortStringInit

\* the registry under concurrent callers
Next ==
    \E g \in Goroutines, p \in ProbeIds, chained \in BOOLEAN :
        \/ CallSealSectorSize(g, p, chained)
        \/ CallRegisteredWinningPoStProof(g, p, chained)
        \/ CallRegisteredWindowPoStProof(g, p, chained)
        \/ CallRegisteredSealProof(g, p, chained)
        \/ CallPoStSectorSize(g, p, chained)

Spec == Init /\ [][Next]_vars

\* calls of ShortString on the sampled sizes
ShortStringNext ==
    \/ \E x \in SizeSamples : ShortStringCall(x)
    \/ ShortStringLoop
    \/ ShortStringReturn

SpecShortString == Init /\ [][ShortStringNext]_vars

----------------------------------------------------------------------------
(* properties of SectorSize.ShortString, under SpecShortString *)

\* math.MaxUint64 = 2^64 - 1
MaxUint64 == <<1023, 1023, 1023, 1023, 1023, 1023, TopLimbMax>>

\* floor(x / 1024^k), read off the positional notation: the limbs above k
FloorDivPow1024(x, k) == SubSeq(x, k + 1, NumLimbs) \o Zeros(k)

\* x < 1024: no limb above the lowest is set
Below1024(x) == \A i \in 2..NumLimbs : x[i] = 0

\* the least number of divisions in 0..6 that brings x below 1024, else 6
UnitIndexOf(x) ==
    LET ks == { k \in 0..6 : Below1024(FloorDivPow1024(x, k)) }
    IN  IF ks = {} THEN 6 ELSE CHOOSE k \in ks : \A j \in ks : k <= j

UnitNames == <<"B", "KiB", "MiB", "GiB", "TiB", "PiB", "EiB">>

\* the abbreviation that truncating division by 1024 prescribes for x
Abbreviation(x) ==
    LET k == UnitIndexOf(x)
        n == FloorDivPow1024(x, k)
    IN  (IF Below1024(n) THEN FormatDecimal(n[1]) ELSE FormatUint(n)) \o UnitNames[k + 1]

\* C7: ShortString of a size is floor(size / 1024^k) followed by the k-th
\* binary unit, k the least number of divisions by 1024 that brings the size
\* below 1024 (6 if none does); 0 gives "0B", 1023 "1023B", 1024 "1KiB" and
\* 1536 "1KiB".
C7_ShortStringTruncates ==
    pc = "done" =>
        /\ out = Abbreviation(recv)
        /\ unit = UnitIndexOf(recv)
        /\ s = FloorDivPow1024(recv, unit)
        /\ recv = Uint64(0) => out = "0B"
        /\ recv = Uint64(1023) => out = "1023B"
        /\ recv = Uint64(1024) => out = "1KiB"
        /\ recv = Uint64(1536) => out = "1KiB"

C7_Witness ==
    /\ pc = "done"
    /\ recv = Uint64(1536)
    /\ unit = 1
    /\ out = "1KiB"

\* C10: on every uint64 the loop of ShortString makes at most 6 divisions,
\* unit stays in 0..6, and the number printed is in 0..1023, also when EiB
\* is reached; 2^64-1 gives "15EiB".
C10_ShortStringBounded ==
    /\ unit \in 0..6
    /\ IsUint64(s)
    /\ pc = "loop" /\ unit = 6 => ~LoopCond(s, unit)
    /\ pc = "done" =>
        /\ Below1024(s)
        /\ s[1] \in 0..1023
        /\ out = FormatDecimal(s[1]) \o UnitNames[unit + 1]
        /\ recv = MaxUint64 => out = "15EiB"

C10_Witness ==
    /\ pc = "done"
    /\ recv = MaxUint64
    /\ unit = 6
    /\ out = "15EiB"

----------------------------------------------------------------------------
(* properties of the registry, under Spec *)

\* the seal proof identifiers with an entry in the forward table
SealEntries == DOMAIN sealProofInfos

\* the PoSt identifiers some entry of the forward table declares
PoStInUse ==
    { sealProofInfos[sp].WinningPoStProof : sp \in SealEntries }
        \cup { sealProofInfos[sp].WindowPoStProof : sp \in SealEntries }

\* the calls the goroutines have completed
Done(g) == calls[g].op # "none"
Succeeded(g) == calls[g].res.err = Nil

\* C1: for every seal proof s with an entry, RegisteredSealProof() of
\* s.RegisteredWinningPoStProof() and of s.RegisteredWindowPoStProof()
\* succeeds and returns s.
C1_RoundTrip ==
    /\ \A sp \in SealEntries :
        LET winning == RegisteredSealProof_RegisteredWinningPoStProof(sp)
            window == RegisteredSealProof_RegisteredWindowPoStProof(sp)
        IN  /\ winning.err = Nil
            /\ window.err = Nil
            /\ RegisteredPoStProof_RegisteredSealProof(winning.val).err = Nil
            /\ RegisteredPoStProof_RegisteredSealProof(winning.val).val = sp
            /\ RegisteredPoStProof_RegisteredSealProof(window.val).err = Nil
            /\ RegisteredPoStProof_RegisteredSealProof(window.val).val = sp
    /\ \A g \in Goroutines :
        (calls[g].op = OpSealProof /\ calls[g].from.op \in ReturnsPoStProof)
            => (Succeeded(g) /\ calls[g].res.val = calls[g].from.arg)

C1_Witness ==
    \E g \in Goroutines :
        /\ calls[g].op = OpSealProof
        /\ calls[g].from = [op |-> OpWindow, arg |-> RegisteredSealProof_StackedDrg32GiBV2]
        /\ calls[g].arg = RegisteredPoStProof_StackedDrgWindow32GiBV2
        /\ Succeeded(g)
        /\ calls[g].res.val = RegisteredSealProof_StackedDrg32GiBV2

\* C2: the reverse table maps p to s exactly when s has a forward entry
\* whose winning or window identifier is p; RegisteredSealProof() succeeds
\* exactly on those identifiers and fails with the unsupported-PoSt-proof
\* error on every other value.
C2_ReverseIsInverse ==
    /\ \A q \in ProbeIds \cup DOMAIN poStSealProofTypes :
        \A sp \in ProbeIds \cup SealEntries :
            (q \in DOMAIN poStSealProofTypes /\ poStSealProofTypes[q] = sp)
                <=> (/\ sp \in SealEntries
                     /\ \/ sealProofInfos[sp].WinningPoStProof = q
                        \/ sealProofInfos[sp].WindowPoStProof = q)
    /\ \A g \in Goroutines :
        calls[g].op = OpSealProof =>
            /\ Succeeded(g) <=> calls[g].arg \in PoStInUse
            /\ Succeeded(g) =>
                /\ calls[g].res.val \in SealEntries
                /\ calls[g].arg \in
                     {sealProofInfos[calls[g].res.val].WinningPoStProof,
                      sealProofInfos[calls[g].res.val].WindowPoStProof}
            /\ ~Succeeded(g) =>
                calls[g].res.err = "unsupported PoSt proof type: " \o FormatInt(calls[g].arg)

C2_Witness ==
    \E g, h \in Goroutines :
        /\ calls[g].op = OpSealProof
        /\ calls[g].arg = RegisteredPoStProof_StackedDrgWindow64GiBV2 + 1
        /\ calls[g].res.err = "unsupported PoSt proof type: 10"
        /\ calls[h].op = OpSealProof
        /\ calls[h].arg = RegisteredPoStProof_StackedDrgWindow64GiBV2
        /\ Succeeded(h)
        /\ calls[h].res.val = RegisteredSealProof_StackedDrg64GiBV2

\* C3: the winning and window PoSt identifiers of the forward table are
\* pairwise distinct, across entries and within one entry, so the PoSt
\* identifiers in use are twice as many as the seal proofs with entries.
C3_NoPoStCollision ==
    /\ \A s1 \in SealEntries :
        /\ sealProofInfos[s1].WinningPoStProof # sealProofInfos[s1].WindowPoStProof
        /\ \A s2 \in SealEntries \ {s1} :
            {sealProofInfos[s1].WinningPoStProof, sealProofInfos[s1].WindowPoStProof}
                \cap {sealProofInfos[s2].WinningPoStProof, sealProofInfos[s2].WindowPoStProof}
                    = {}
    /\ Cardinality(PoStInUse) = 2 * Cardinality(SealEntries)
    /\ \A g, h \in Goroutines :
        (/\ calls[g].op \in ReturnsPoStProof
         /\ calls[h].op \in ReturnsPoStProof
         /\ Succeeded(g)
         /\ Succeeded(h)
         /\ <<calls[g].op, calls[g].arg>> # <<calls[h].op, calls[h].arg>>)
            => calls[g].res.val # calls[h].res.val

C3_Witness ==
    \E g, h \in Goroutines :
        /\ calls[g].op = OpWindow
        /\ calls[g].arg = RegisteredSealProof_StackedDrg2KiBV2
        /\ calls[g].res.val = RegisteredPoStProof_StackedDrgWindow2KiBV2
        /\ calls[h].op = OpWindow
        /\ calls[h].arg = RegisteredSealProof_StackedDrg8MiBV2
        /\ calls[h].res.val = RegisteredPoStProof_StackedDrgWindow8MiBV2

\* C4: for every seal proof s with an entry, SectorSize() of s's winning and
\* of s's window PoSt identifier succeed and equal SectorSize() of s.
C4_SizeConsistency ==
    /\ \A sp \in SealEntries :
        LET size == RegisteredSealProof_SectorSize(sp)
            winning == RegisteredPoStProof_SectorSize(sealProofInfos[sp].WinningPoStProof)
            window == RegisteredPoStProof_SectorSize(sealProofInfos[sp].WindowPoStProof)
        IN  /\ size.err = Nil
            /\ winning.err = Nil /\ winning.val = size.val
            /\ window.err = Nil /\ window.val = size.val
    /\ \A g \in Goroutines :
        (calls[g].op = OpPoStSectorSize /\ calls[g].from.op \in ReturnsPoStProof) =>
            /\ Succeeded(g)
            /\ calls[g].res.val = sealProofInfos[calls[g].from.arg].SectorSize
            /\ \A h \in Goroutines :
                (calls[h].op = OpSealSectorSize /\ calls[h].arg = calls[g].from.arg)
                    => (Succeeded(h) /\ calls[h].res.val = calls[g].res.val)

C4_Witness ==
    \E g, h \in Goroutines :
        /\ calls[g].op = OpPoStSectorSize
        /\ calls[g].from = [op |-> OpWindow, arg |-> RegisteredSealProof_StackedDrg64GiBV2]
        /\ calls[g].arg = RegisteredPoStProof_StackedDrgWindow64GiBV2
        /\ calls[g].res.val = Shl(64, 30)
        /\ calls[h].op = OpSealSectorSize
        /\ calls[h].arg = RegisteredSealProof_StackedDrg64GiBV2
        /\ calls[h].res.val = Shl(64, 30)

\* C5: an identifier without a table entry (negative, or above the highest
\* assigned, such as seal proof 5) makes every operation that accepts it
\* fail: the three seal proof methods with the unsupported-proof-type error,
\* the two PoSt methods with the unsupported-PoSt-proof-type error; none
\* returns a value with a nil error.
C5_ClosedWorld ==
    /\ \A sp \in SealEntries : sp <= RegisteredSealProof_StackedDrg64GiBV2
    /\ RegisteredSealProof_StackedDrg64GiBV2 + 1 \notin SealEntries
    /\ \A q \in ProbeIds \ SealEntries :
        /\ RegisteredSealProof_SectorSize(q).err
             = "unsupported proof type: " \o FormatInt(q)
        /\ RegisteredSealProof_RegisteredWinningPoStProof(q).err
             = "unsupported proof type: " \o FormatInt(q)
        /\ RegisteredSealProof_RegisteredWindowPoStProof(q).err
             = "unsupported proof type: " \o FormatInt(q)
    /\ \A q \in ProbeIds \ PoStInUse :
        /\ RegisteredPoStProof_RegisteredSealProof(q).err
             = "unsupported PoSt proof type: " \o FormatInt(q)
        /\ RegisteredPoStProof_SectorSize(q).err
             = "unsupported PoSt proof type: " \o FormatInt(q)
    /\ \A g \in Goroutines :
        /\ (calls[g].op \in {OpSealSectorSize, OpWinning, OpWindow}
                /\ calls[g].arg \notin SealEntries)
            => (/\ ~Succeeded(g)
                /\ calls[g].res.err = "unsupported proof type: " \o FormatInt(calls[g].arg))
        /\ (calls[g].op \in {OpSealProof, OpPoStSectorSize}
                /\ calls[g].arg \notin PoStInUse)
            => (/\ ~Succeeded(g)
                /\ calls[g].res.err
                     = "unsupported PoSt proof type: " \o FormatInt(calls[g].arg))

C5_Witness ==
    \E g, h \in Goroutines :
        /\ calls[g].op = OpWindow
        /\ calls[g].arg = RegisteredSealProof_StackedDrg64GiBV2 + 1
        /\ calls[g].res.err = "unsupported proof type: 5"
        /\ calls[h].op = OpPoStSectorSize
        /\ calls[h].arg = 0 - 1
        /\ calls[h].res.err = "unsupported PoSt proof type: -1"

\* C6: SectorSize() of a PoSt identifier p fails with the error of
\* RegisteredSealProof() on p when that fails (the unsupported-PoSt-proof
\* error), without reading the forward table; otherwise it returns what
\* RegisteredSealProof.SectorSize() returns on the seal proof found for p.
C6_TwoHop ==
    \A g \in Goroutines :
        calls[g].op = OpPoStSectorSize =>
            LET sp == RegisteredPoStProof_RegisteredSealProof(calls[g].arg)
            IN  IF sp.err # Nil
                THEN /\ calls[g].res.err = sp.err
                     /\ calls[g].res.err
                          = "unsupported PoSt proof type: " \o FormatInt(calls[g].arg)
                     /\ calls[g].res.reads = <<"PoStSealProofTypes">>
                ELSE /\ calls[g].res.val = RegisteredSealProof_SectorSize(sp.val).val
                     /\ calls[g].res.err = RegisteredSealProof_SectorSize(sp.val).err
                     /\ calls[g].res.reads = <<"PoStSealProofTypes", "SealProofInfos">>

C6_Witness ==
    \E g, h \in Goroutines :
        /\ calls[g].op = OpPoStSectorSize
        /\ calls[g].arg = RegisteredPoStProof_StackedDrgWindow64GiBV2 + 1
        /\ calls[g].res.err = "unsupported PoSt proof type: 10"
        /\ calls[g].res.reads = <<"PoStSealProofTypes">>
        /\ calls[h].op = OpPoStSectorSize
        /\ calls[h].arg = RegisteredPoStProof_StackedDrgWinning512MiBV2
        /\ calls[h].res.val = Shl(512, 20)
        /\ calls[h].res.err = Nil

\* what a method returns on argument q in the current state
ResultOf(op, q) ==
    CASE op = OpSealSectorSize -> RegisteredSealProof_SectorSize(q)
      [] op = OpWinning -> RegisteredSealProof_RegisteredWinningPoStProof(q)
      [] op = OpWindow -> RegisteredSealProof_RegisteredWindowPoStProof(q)
      [] op = OpSealProof -> RegisteredPoStProof_RegisteredSealProof(q)
      [] op = OpPoStSectorSize -> RegisteredPoStProof_SectorSize(q)

\* C8: whatever lookups the goroutines have made, in whatever order, both
\* tables hold their initial contents, two calls of one method on one
\* argument have returned the same value or the same failure, and a call
\* repeated now returns what it returned before.
C8_ReadOnly ==
    /\ sealProofInfos = SealProofInfos
    /\ poStSealProofTypes = PoStSealProofTypes
    /\ \A g, h \in Goroutines :
        (Done(g) /\ calls[g].op = calls[h].op /\ calls[g].arg = calls[h].arg)
            => calls[g].res = calls[h].res
    /\ \A g \in Goroutines :
        Done(g) => ResultOf(calls[g].op, calls[g].arg) = calls[g].res

C8_Witness ==
    \E g, h \in Goroutines :
        /\ g # h
        /\ calls[g].op = OpSealSectorSize
        /\ calls[h].op = OpSealSectorSize
        /\ calls[g].arg = RegisteredSealProof_StackedDrg64GiBV2 + 1
        /\ calls[h].arg = RegisteredSealProof_StackedDrg64GiBV2 + 1
        /\ ~Succeeded(g)
        /\ calls[g].res = calls[h].res

\* C9: for the 2 KiB seal proof (0), SectorSize() returns 2048,
\* RegisteredWinningPoStProof() returns the 2 KiB winning identifier (0),
\* RegisteredSealProof() of that identifier returns the 2 KiB seal proof,
\* and SectorSize() of the 2 KiB window identifier (5) returns 2048.
C9_Scenario2KiB ==
    /\ RegisteredSealProof_StackedDrg2KiBV2 = 0
    /\ RegisteredPoStProof_StackedDrgWinning2KiBV2 = 0
    /\ RegisteredPoStProof_StackedDrgWindow2KiBV2 = 5
    /\ RegisteredSealProof_SectorSize(0).err = Nil
    /\ RegisteredSealProof_SectorSize(0).val = Uint64(2048)
    /\ RegisteredSealProof_RegisteredWinningPoStProof(0).err = Nil
    /\ RegisteredSealProof_RegisteredWinningPoStProof(0).val = 0
    /\ RegisteredPoStProof_RegisteredSealProof(0).err = Nil
    /\ RegisteredPoStProof_RegisteredSealProof(0).val = 0
    /\ RegisteredPoStProof_SectorSize(5).err = Nil
    /\ RegisteredPoStProof_SectorSize(5).val = Uint64(2048)
    /\ \A g \in Goroutines :
        /\ (calls[g].op = OpSealSectorSize /\ calls[g].arg = 0)
            => (Succeeded(g) /\ FormatUint(calls[g].res.val) = "2048")
        /\ (calls[g].op = OpWinning /\ calls[g].arg = 0)
            => (Succeeded(g) /\ calls[g].res.val = 0)
        /\ (calls[g].op = OpSealProof /\ calls[g].arg = 0)
            => (Succeeded(g) /\ calls[g].res.val = 0)
        /\ (calls[g].op = OpPoStSectorSize /\ calls[g].arg = 5)
            => (Succeeded(g) /\ FormatUint(calls[g].res.val) = "2048")

C9_Witness ==
    \E g, h \in Goroutines :
        /\ calls[g].op = OpSealProof
        /\ calls[g].from = [op |-> OpWinning, arg |-> 0]
        /\ calls[g].arg = 0
        /\ calls[g].res.val = 0
        /\ calls[h].op = OpPoStSectorSize
        /\ calls[h].arg = 5
        /\ calls[h].res.val = Uint64(2048)

====
